---- MODULE Spec2Model ----
(***************************************************************************)
(* A model of nez::CPU (include/cpu.hpp, src/cpu.cpp): the register file,  *)
(* the byte memory, write_memory_direct, read_memory, reg_val, step() and  *)
(* the host's run() loop.                                                  *)
(*                                                                         *)
(* Registers are nez::Byte (CPU::Register, cpu.hpp:34), so every register, *)
(* the program counter included, is kept modulo 256.  The memory member is *)
(* std::array<nez::Byte, 0xFFFF> (cpu.hpp:109): it is represented by the   *)
(* cells written so far (memory) over the content every other cell has had *)
(* since construction (fill).                                              *)
(***************************************************************************)
EXTENDS Integers, Sequences, FiniteSets, TLC

VARIABLES rPC, rX, rY, rA, rStatus, rSP,  \* CPU registers (cpu.hpp:92-108)
          memory,     \* cells of CPU::memory written since construction
          fill,       \* content of every cell not written since construction
          past_end,   \* the byte of storage that follows the CPU object
          proc,       \* the host process: "running", "aborted", "crashed"
          err,        \* messages NEZ_ERROR has printed to stderr
          nwrites,    \* number of write_memory_direct calls so far
          last,       \* the last operation performed and its inputs
          runpc,      \* where run() is: "idle", "loop", "decode", "returned"
          cancel      \* "no", or where run() was when the host's
                      \* cancellation signal arrived

vars == <<rPC, rX, rY, rA, rStatus, rSP, memory, fill, past_end, proc, err,
          nwrites, last, runpc, cancel>>

host == <<runpc, cancel>>

regs == <<rPC, rX, rY, rA, rStatus, rSP>>

(***************************************************************************)
(* Bounds of the exploration.                                              *)
(***************************************************************************)
MaxWrites == 3

\* Addresses handed to write_memory_direct: the start of the zero page, the
\* top of the 8-bit PC range, and the two ends of the 16-bit address range.
WriteAddrs == {0, 1, 254, 255, 65534, 65535}

\* Byte values handed to write_memory_direct: the two load opcodes, two JAM
\* opcodes (JAM0, and the byte of JAMB/JAMD), and a byte that is no opcode
\* (the zero byte, no opcode either, is what unwritten cells of a zeroed CPU
\* hold).
WriteVals == {2, 165, 169, 178, 255}

(***************************************************************************)
(* Program constants.                                                      *)
(***************************************************************************)
ByteRange == 256          \* nez::Byte = std::uint8_t
MemSize == 65535          \* std::array<nez::Byte, 0xFFFF>
AddrRange == 65536        \* std::uint16_t address

Byte == 0 .. (ByteRange - 1)

\* an array of 0xFF cells: too short for the addresses a byte can hold
MemIndex_Short == 0 .. (ByteRange - 2)

MemIndex == 0 .. (MemSize - 1)

\* enum class Op : nez::Byte
Op == [LDAimm |-> 169, LDAzrpg |-> 165,
       JAM0 |-> 2, JAM1 |-> 18, JAM2 |-> 34, JAM3 |-> 50, JAM4 |-> 66,
       JAM5 |-> 82, JAM6 |-> 98, JAM7 |-> 114, JAM9 |-> 146,
       JAMB |-> 178, JAMD |-> 178, JAMF |-> 242]

OpNames == DOMAIN Op

JamNames == OpNames \ {"LDAimm", "LDAzrpg"}

JamBytes == {Op[n] : n \in JamNames}

\* static_cast<Op>(byte): the enumerators a fetched byte compares equal to
OpsOf(b) == {n \in OpNames : Op[n] = b}

NotImplemented == "Not implemented"

(***************************************************************************)
(* Memory access.                                                          *)
(***************************************************************************)
\* this->memory[i] for an index inside the array
Cell(i) == IF i \in DOMAIN memory THEN memory[i] ELSE fill

\* this->memory[i]: an index of MemSize or more is outside the array, and
\* the access lands on the storage that follows the object
MemAt(i) == IF i \in MemIndex THEN Cell(i) ELSE past_end

\* CPU::read_memory(const std::uint16_t address)
read_memory(address) == MemAt(address % AddrRange)

\* a program counter that is not reduced to the register's 8 bits
IncPC_Wide(pc) == pc + 1

\* ++this->rPC on an 8-bit register
IncPC(pc) == (pc + 1) % ByteRange

NoOp == [op |-> "construct", pc |-> 0, instr |-> 0, operand |-> 0,
         addr |-> 0, value |-> 0]

(***************************************************************************)
(* Construction.  CPU declares no constructor and no member initialisers:  *)
(* value-initialisation (std::make_unique<CPU>() in tests/cpu.test.cpp)    *)
(* zeroes the object, default-initialisation (CPU cpu; new CPU) leaves     *)
(* every member with an indeterminate value.                               *)
(***************************************************************************)
ZeroFile == [pc |-> 0, x |-> 0, y |-> 0, a |-> 0, status |-> 0, sp |-> 0,
             fill |-> 0]

\* indeterminate contents a default-initialised CPU can start with
IndeterminateFiles ==
  { [pc |-> 255, x |-> 17, y |-> 34, a |-> 51, status |-> 255, sp |-> 253,
     fill |-> 0],
    [pc |-> 254, x |-> 0, y |-> 128, a |-> 0, status |-> 2, sp |-> 1,
     fill |-> 255],
    [pc |-> 0, x |-> 255, y |-> 1, a |-> 165, status |-> 128, sp |-> 255,
     fill |-> 2] }

Construct(f) ==
  /\ rPC = f.pc /\ rX = f.x /\ rY = f.y /\ rA = f.a
  /\ rStatus = f.status /\ rSP = f.sp
  /\ fill = f.fill
  /\ proc = "running"
  /\ err = << >>
  /\ runpc = "idle"
  /\ cancel = "no"

\* no call of write_memory_direct yet
Unwritten == memory = << >> /\ nwrites = 0

ValueInit == Construct(ZeroFile) /\ Unwritten /\ last = NoOp

DefaultInit ==
  /\ \E f \in IndeterminateFiles : Construct(f)
  /\ Unwritten
  /\ last = [NoOp EXCEPT !.op = "default-construct"]

Init == /\ (ValueInit \/ DefaultInit)
        /\ past_end \in {0, 169}

(***************************************************************************)
(* void write_memory_direct(const std::size_t address, nez::Byte value)    *)
(***************************************************************************)
\* a store that is mirrored into the next cell
StoreIn_Mirror(address, value) ==
  /\ address \in MemIndex
  /\ memory' = [i \in (DOMAIN memory) \cup {address, (address + 1) % MemSize}
                  |-> IF i \in {address, (address + 1) % MemSize}
                        THEN value ELSE memory[i]]
  /\ UNCHANGED <<past_end, proc>>

StoreIn(address, value) ==
  /\ address \in MemIndex
  /\ memory' = [i \in (DOMAIN memory) \cup {address} |->
                  IF i = address THEN value ELSE memory[i]]
  /\ UNCHANGED <<past_end, proc>>

\* address >= MemSize: the store is outside the array.  It may land on the
\* byte behind the object (which then holds value), leave that byte with any
\* other content, or take the process down.
StoreOut(address, value) ==
  /\ address \notin MemIndex
  /\ \/ past_end' \in WriteVals /\ UNCHANGED proc
     \/ proc' = "crashed" /\ UNCHANGED past_end
  /\ UNCHANGED memory

write_memory_direct(address, value) ==
  /\ proc = "running"
  /\ nwrites < MaxWrites
  /\ (StoreIn(address, value) \/ StoreOut(address, value))
  /\ nwrites' = nwrites + 1
  /\ last' = [NoOp EXCEPT !.op = "write", !.addr = address, !.value = value]
  /\ UNCHANGED <<regs, fill, err, host>>

(***************************************************************************)
(* void CPU::step()                                                        *)
(***************************************************************************)
\* LDAimm loading the opcode byte again instead of the operand
StepLDAimm_Refetch(pc1) ==
  /\ rA' = MemAt(rPC)
  /\ rPC' = IncPC(pc1)
  /\ last' = [NoOp EXCEPT !.op = "step", !.pc = rPC, !.instr = MemAt(rPC),
                         !.operand = MemAt(pc1)]
  /\ UNCHANGED <<proc, err>>

\* case Op::LDAimm: this->rA = this->next_byte();
StepLDAimm(pc1) ==
  /\ rA' = MemAt(pc1)
  /\ rPC' = IncPC(pc1)
  /\ last' = [NoOp EXCEPT !.op = "step", !.pc = rPC, !.instr = MemAt(rPC),
                         !.operand = MemAt(pc1)]
  /\ UNCHANGED <<proc, err>>

\* LDAzrpg loading the address byte itself, as the immediate form does
StepLDAzrpg_Immediate(pc1) ==
  /\ rA' = MemAt(pc1)
  /\ rPC' = IncPC(pc1)
  /\ last' = [NoOp EXCEPT !.op = "step", !.pc = rPC, !.instr = MemAt(rPC),
                         !.operand = MemAt(pc1), !.addr = MemAt(pc1),
                         !.value = read_memory(MemAt(pc1))]
  /\ UNCHANGED <<proc, err>>

\* case Op::LDAzrpg: addr = next_byte(); this->rA = this->read_memory(addr);
StepLDAzrpg(pc1) ==
  /\ rA' = read_memory(MemAt(pc1))
  /\ rPC' = IncPC(pc1)
  /\ last' = [NoOp EXCEPT !.op = "step", !.pc = rPC, !.instr = MemAt(rPC),
                         !.operand = MemAt(pc1), !.addr = MemAt(pc1),
                         !.value = read_memory(MemAt(pc1))]
  /\ UNCHANGED <<proc, err>>

\* a default arm that consumes an operand byte before it gives up
StepDefault_FetchOperand(pc1) ==
  /\ rPC' = IncPC(pc1)
  /\ err' = Append(err, NotImplemented)
  /\ proc' = "aborted"
  /\ last' = [NoOp EXCEPT !.op = "step", !.pc = rPC, !.instr = MemAt(rPC)]
  /\ UNCHANGED rA

\* default: NEZ_ERROR("Not implemented"): fprintf(stderr, ...); abort();
StepDefault(pc1) ==
  /\ rPC' = pc1
  /\ err' = Append(err, NotImplemented)
  /\ proc' = "aborted"
  /\ last' = [NoOp EXCEPT !.op = "step", !.pc = rPC, !.instr = MemAt(rPC)]
  /\ UNCHANGED rA

\* a step() that clears the cell it fetched its opcode from
step_Storing ==
  /\ proc = "running"
  /\ LET instr == MemAt(rPC)
         pc1 == IncPC(rPC)
     IN  CASE instr = Op.LDAimm -> StepLDAimm(pc1)
           [] instr = Op.LDAzrpg -> StepLDAzrpg(pc1)
           [] OTHER -> StepDefault(pc1)
  /\ memory' = [i \in (DOMAIN memory) \cup {rPC} |->
                  IF i = rPC THEN 0 ELSE memory[i]]
  /\ UNCHANGED <<rX, rY, rStatus, rSP, fill, past_end, nwrites>>
  /\ UNCHANGED host

\* a step() whose loads also land in the X register
step_LoadsX ==
  /\ proc = "running"
  /\ LET instr == MemAt(rPC)
         pc1 == IncPC(rPC)
     IN  CASE instr = Op.LDAimm -> StepLDAimm(pc1)
           [] instr = Op.LDAzrpg -> StepLDAzrpg(pc1)
           [] OTHER -> StepDefault(pc1)
  /\ rX' = rA'
  /\ UNCHANGED <<rY, rStatus, rSP, memory, fill, past_end, nwrites>>
  /\ UNCHANGED host

step ==
  /\ proc = "running"
  /\ LET instr == MemAt(rPC)       \* next_instr()
         pc1 == IncPC(rPC)
     IN  CASE instr = Op.LDAimm -> StepLDAimm(pc1)
           [] instr = Op.LDAzrpg -> StepLDAzrpg(pc1)
           [] OTHER -> StepDefault(pc1)
  /\ UNCHANGED <<rX, rY, rStatus, rSP, memory, fill, past_end, nwrites>>
  /\ UNCHANGED host

Write == \E address \in WriteAddrs, value \in WriteVals :
            write_memory_direct(address, value)

Next == step \/ Write

Spec == Init /\ [][Next]_vars

(***************************************************************************)
(* A CPU built by cpu_with_mem (tests/cpu.test.cpp) and then only stepped: *)
(* std::make_unique<CPU>() zeroes the object and the loop stores mem[i] at *)
(* address i for every i < N.                                              *)
(***************************************************************************)
\* the arrays of instr_test
TestLDAimm == <<Op.LDAimm, 18>>

TestLDAzrpg == <<Op.LDAzrpg, 1>>

\* LDA #operand at every even address up to 254, the operands counting up
ImmProgram == [i \in 1 .. (ByteRange - 1) |->
                 IF i % 2 = 1 THEN Op.LDAimm ELSE i \div 2]

\* LDA zero-page at every even address up to 254, each reading the byte
\* two addresses ahead
ZrpgProgram == [i \in 1 .. (ByteRange - 1) |->
                  IF i % 2 = 1 THEN Op.LDAzrpg ELSE (i + 1) % ByteRange]

Programs == {TestLDAimm, TestLDAzrpg, ImmProgram, ZrpgProgram}

cpu_with_mem(mem) ==
  /\ Construct(ZeroFile)
  /\ memory = [i \in 0 .. (Len(mem) - 1) |-> mem[i + 1]]
  /\ nwrites = Len(mem)
  /\ last = [NoOp EXCEPT !.op = "write", !.addr = Len(mem) - 1,
                         !.value = mem[Len(mem)]]
  /\ past_end = 0

InitProgram == \E mem \in Programs : cpu_with_mem(mem)

SpecProgram == InitProgram /\ [][step]_vars

(***************************************************************************)
(* Register [[nodiscard]] reg_val(RegisterName const reg) const noexcept   *)
(***************************************************************************)
\* enum class RegisterName : std::size_t
RegisterName == [a |-> 0, x |-> 1, y |-> 2, pc |-> 3, status |-> 4, sp |-> 5,
                 numRegisters |-> 6]

RegisterNames == {RegisterName[n] : n \in DOMAIN RegisterName}

\* the cases of the switch in reg_val
RegCases == {RegisterName.pc, RegisterName.x, RegisterName.y, RegisterName.a,
             RegisterName.status, RegisterName.sp}

RegValue(reg) ==
  CASE reg = RegisterName.pc -> rPC
    [] reg = RegisterName.x -> rX
    [] reg = RegisterName.y -> rY
    [] reg = RegisterName.a -> rA
    [] reg = RegisterName.status -> rStatus
    [] reg = RegisterName.sp -> rSP

InvalidRegister == "Attempt to read invalid register"

\* The host is single-threaded: it reads registers when run() is not
\* executing.  default: NEZ_ERROR("Attempt to read invalid register").
reg_val(reg) ==
  /\ proc = "running"
  /\ runpc \in {"idle", "returned"}
  /\ IF reg \in RegCases
       THEN /\ last' = [NoOp EXCEPT !.op = "reg_val", !.addr = reg,
                                    !.value = RegValue(reg)]
            /\ UNCHANGED <<proc, err>>
       ELSE /\ last' = [NoOp EXCEPT !.op = "reg_val", !.addr = reg]
            /\ err' = Append(err, InvalidRegister)
            /\ proc' = "aborted"
  /\ UNCHANGED <<regs, memory, fill, past_end, nwrites, host>>

Observe == \E reg \in RegisterNames : reg_val(reg)

(***************************************************************************)
(* step() in the two parts a run() in progress goes through: the opcode    *)
(* fetch of next_instr(), then the switch.                                 *)
(***************************************************************************)
\* const auto instr = next_instr();
next_instr ==
  /\ last' = [NoOp EXCEPT !.op = "fetch", !.pc = rPC, !.instr = MemAt(rPC)]
  /\ rPC' = IncPC(rPC)
  /\ UNCHANGED <<rA, proc, err>>

\* switch (instr), with rPC already behind the opcode
Execute ==
  CASE last.instr = Op.LDAimm ->
         /\ rA' = MemAt(rPC)
         /\ rPC' = IncPC(rPC)
         /\ last' = [last EXCEPT !.op = "step", !.operand = MemAt(rPC)]
         /\ UNCHANGED <<proc, err>>
    [] last.instr = Op.LDAzrpg ->
         /\ rA' = read_memory(MemAt(rPC))
         /\ rPC' = IncPC(rPC)
         /\ last' = [last EXCEPT !.op = "step", !.operand = MemAt(rPC),
                                 !.addr = MemAt(rPC),
                                 !.value = read_memory(MemAt(rPC))]
         /\ UNCHANGED <<proc, err>>
    [] OTHER ->
         /\ err' = Append(err, NotImplemented)
         /\ proc' = "aborted"
         /\ last' = [last EXCEPT !.op = "step"]
         /\ UNCHANGED <<rA, rPC>>

(***************************************************************************)
(* void run(): declared in cpu.hpp, defined nowhere in the sources.  Its   *)
(* loop is the one the specification describes: step() is invoked again   *)
(* and again, and a cancellation signal is looked at before a step begins. *)
(* The CPU holds no Halted or Faulted status the loop could test.          *)
(***************************************************************************)
Frame == UNCHANGED <<rX, rY, rStatus, rSP, memory, fill, past_end, nwrites>>

run_call ==
  /\ proc = "running"
  /\ runpc \in {"idle", "returned"}
  /\ runpc' = "loop"
  /\ UNCHANGED <<regs, memory, fill, past_end, proc, err, nwrites, last,
                 cancel>>

\* a run() that also gives up between the fetch and the switch
run_cancelled_Anywhere ==
  /\ proc = "running"
  /\ runpc \in {"loop", "decode"}
  /\ cancel # "no"
  /\ runpc' = "returned"
  /\ UNCHANGED <<regs, memory, fill, past_end, proc, err, nwrites, last,
                 cancel>>

\* the signal is seen before the next step begins: run() returns
run_cancelled ==
  /\ proc = "running"
  /\ runpc = "loop"
  /\ cancel # "no"
  /\ runpc' = "returned"
  /\ UNCHANGED <<regs, memory, fill, past_end, proc, err, nwrites, last,
                 cancel>>

run_fetch ==
  /\ proc = "running"
  /\ runpc = "loop"
  /\ cancel = "no"
  /\ next_instr
  /\ runpc' = "decode"
  /\ Frame /\ UNCHANGED cancel

run_execute ==
  /\ proc = "running"
  /\ runpc = "decode"
  /\ Execute
  /\ runpc' = "loop"
  /\ Frame /\ UNCHANGED cancel

run == run_call \/ run_cancelled \/ run_fetch \/ run_execute

\* the host's cancellation signal, which may arrive at any moment
Cancel ==
  /\ proc = "running"
  /\ cancel = "no"
  /\ cancel' = runpc
  /\ UNCHANGED <<regs, memory, fill, past_end, proc, err, nwrites, last,
                 runpc>>

\* a program that ends in JAM0 after one load
JamProgram == <<Op.LDAimm, 128, Op.JAM0>>

HostPrograms == Programs \cup {JamProgram}

\* The host: a CPU built by cpu_with_mem, driven by run(), cancelled at
\* some moment, and observed through reg_val.
InitHost == \E mem \in HostPrograms : cpu_with_mem(mem)

NextHost == run \/ Cancel \/ Observe

SpecHost == InitHost /\ [][NextHost]_vars

TypeOK ==
  /\ rPC \in Byte /\ rX \in Byte /\ rY \in Byte /\ rA \in Byte
  /\ rStatus \in Byte /\ rSP \in Byte
  /\ DOMAIN memory \subseteq MemIndex
  /\ \A i \in DOMAIN memory : memory[i] \in Byte
  /\ fill \in Byte /\ past_end \in Byte
  /\ proc \in {"running", "aborted", "crashed"}
  /\ nwrites \in Nat
  /\ runpc \in {"idle", "loop", "decode", "returned"}
  /\ cancel \in {"no", "idle", "loop", "decode", "returned"}

(***************************************************************************)
(* Helpers of the properties.  step() never stores to memory, so after a   *)
(* step the cells still hold what the step fetched.                        *)
(***************************************************************************)
Stepped == last.op = "step"

Fetched == MemAt(last.pc)                       \* the opcode byte fetched

NextByteAt == (last.pc + 1) % ByteRange         \* address of the operand

LoadedImm == Stepped /\ Fetched = Op.LDAimm

LoadedZrpg == Stepped /\ Fetched = Op.LDAzrpg

Loaded == LoadedImm \/ LoadedZrpg

\* bit k of byte v; Status is NV-BDIZC: Z is bit 1, N is bit 7
Bit(v, k) == (v \div (2 ^ k)) % 2

(***************************************************************************)
(* C1: a step() that fetches LDAimm (0xA9) at PC leaves A equal to the     *)
(* byte that follows the opcode (the byte at PC+1 in the 8-bit arithmetic  *)
(* of the PC register), for every starting PC.                             *)
(***************************************************************************)
C1_LDAimmLoadsOperand == LoadedImm => rA = MemAt(NextByteAt)

\* LDA #0xB2 executed at PC = 0 of a zeroed CPU
C1_Witness == LoadedImm /\ last.pc = 0 /\ rA = 178 /\ rStatus = 0 /\ rX = 0

(***************************************************************************)
(* C2: a step() that fetches LDAzrpg (0xA5) at PC, followed by the byte a, *)
(* leaves A equal to the byte stored at zero-page address a.               *)
(***************************************************************************)
C2_LDAzrpgLoadsCell == LoadedZrpg => rA = MemAt(MemAt(NextByteAt))

\* LDAzrpg 0xFF executed at PC = 0 of a zeroed CPU, loading the byte 0x02
\* that was written to address 255
C2_Witness ==
  /\ LoadedZrpg /\ last.pc = 0 /\ fill = 0
  /\ MemAt(1) = 255 /\ 255 \in DOMAIN memory /\ rA = memory[255] /\ rA = 2

(***************************************************************************)
(* C3: after a step() that executes LDAimm or LDAzrpg and loads v into A,  *)
(* the Z bit of Status is (v = 0) and the N bit is bit 7 of v.             *)
(***************************************************************************)
C3_Original ==
  Loaded => /\ Bit(rStatus, 1) = (IF rA = 0 THEN 1 ELSE 0)
            /\ Bit(rStatus, 7) = Bit(rA, 7)

(***************************************************************************)
(* C4: a step() that executes LDAimm or LDAzrpg leaves PC exactly 2        *)
(* greater than its value before the instruction, for every starting PC.   *)
(***************************************************************************)
C4_Original == Loaded => rPC = last.pc + 2

\* C4, amended: PC is an 8-bit register, so a load leaves it at
\* (PC + 2) mod 256: 2 greater below 254, and 0 or 1 from 254 or 255.
C4_PCAdvancesMod256 == Loaded => rPC = (last.pc + 2) % ByteRange

\* the load at address 254 of a loaded program wraps the program counter
C4_Witness == Loaded /\ last.pc = 254 /\ rPC = 0 /\ 254 \in DOMAIN memory

(***************************************************************************)
(* C5: a step() that fetches a JAM opcode halts the CPU without raising an *)
(* error: the process keeps running and later step() calls are no-ops.     *)
(***************************************************************************)
C5_Original ==
  (Stepped /\ Fetched \in JamBytes) => (proc = "running" /\ err = << >>)

(***************************************************************************)
(* C6: a step() that fetches a byte b that is neither a load nor a JAM     *)
(* opcode returns to its caller with a fault naming b, and with A, X, Y,   *)
(* Status and SP as they were before the fetch.                            *)
(***************************************************************************)
C6_Original ==
  [][ (last'.op = "step" /\ MemAt(rPC) \notin {Op[n] : n \in OpNames})
        => /\ proc' = "running"
           /\ \E i \in DOMAIN err' : err'[i] = "UnimplementedOpcode"
           /\ <<rA, rX, rY, rStatus, rSP>>' = <<rA, rX, rY, rStatus, rSP>> ]_vars

(***************************************************************************)
(* C7: every step() returns to its caller; no byte of a loaded program     *)
(* makes step() abort the host process.                                    *)
(***************************************************************************)
C7_Original == Stepped => proc # "aborted"

(***************************************************************************)
(* C8: write_memory_direct(addr, v) followed by read_memory(addr) returns  *)
(* v for every addr in 0 .. 65535, each of which is a cell of the memory.  *)
(***************************************************************************)
C8_Original ==
  (last.op = "write" /\ last.addr \in 0 .. (AddrRange - 1))
     => /\ last.addr \in MemIndex
        /\ proc = "running"
        /\ read_memory(last.addr) = last.value

(***************************************************************************)
(* C9: right after construction every register reads as zero and every    *)
(* memory address reads as zero.                                           *)
(***************************************************************************)
C9_Original ==
  (last.op \in {"construct", "default-construct"})
     => /\ regs = <<0, 0, 0, 0, 0, 0>>
        /\ \A a \in 0 .. (AddrRange - 1) : read_memory(a) = 0

(***************************************************************************)
(* C10: the opcode table is injective (no two opcode names share a byte),  *)
(* so a fetched byte matches at most one name, and a byte that matches no  *)
(* name takes the unrecognised arm of step().                              *)
(***************************************************************************)
C10_Original ==
  Stepped => /\ Cardinality(OpsOf(Fetched)) <= 1
             /\ (OpsOf(Fetched) = {} => proc = "aborted")

(***************************************************************************)
(* C11: run() invokes step() until the CPU is Halted or Faulted: once a    *)
(* step of run() has fetched a JAM or an unrecognised byte, run() is still *)
(* there to return to its caller with that status.                         *)
(***************************************************************************)
C11_Original ==
  (runpc # "idle" /\ Stepped /\ ~Loaded) => proc = "running"

(***************************************************************************)
(* C12: cancellation of run() is honoured only at instruction boundaries:  *)
(* whenever run() has returned, no instruction is fetched but unexecuted,  *)
(* and a load it started has fetched its operand, advanced PC over both    *)
(* bytes and updated A.                                                    *)
(***************************************************************************)
C12_CancelAtBoundary ==
  runpc = "returned" =>
     /\ last.op # "fetch"
     /\ Loaded => rPC = (last.pc + 2) % ByteRange
     /\ LoadedImm => rA = MemAt(NextByteAt)
     /\ LoadedZrpg => rA = MemAt(MemAt(NextByteAt))

\* the signal arrived between the fetch and the switch of the third load,
\* and run() returned after that load was complete
C12_Witness ==
  /\ runpc = "returned" /\ cancel = "decode"
  /\ Loaded /\ last.pc = 4 /\ rPC = 6

(***************************************************************************)
(* C13: reg_val is total over the register names: for every value of the   *)
(* register-name type it returns the current value of a register and never *)
(* takes the error branch.                                                 *)
(***************************************************************************)
C13_Original ==
  last.op = "reg_val" =>
     /\ proc = "running"
     /\ last.addr \in RegCases
     /\ last.value = RegValue(last.addr)

(***************************************************************************)
(* C14: a step() that fetches a JAM or an unrecognised opcode changes, of  *)
(* the registers and the memory, only PC: PC is advanced by one (in the    *)
(* register's 8-bit arithmetic) past the opcode byte, so the byte before   *)
(* PC is the offending one; no operand is fetched, memory is unchanged.    *)
(***************************************************************************)
C14_FaultFrame ==
  [][ (last'.op = "step" /\ MemAt(rPC) \notin {Op.LDAimm, Op.LDAzrpg})
        => /\ rPC' = (rPC + 1) % ByteRange
           /\ MemAt((rPC' + ByteRange - 1) % ByteRange) = MemAt(rPC)
           /\ UNCHANGED <<rA, rX, rY, rStatus, rSP, memory, fill, past_end>>
    ]_vars

\* JAM0 fetched at address 0: PC is 1 and the registers are as constructed
C14_Witness ==
  /\ Stepped /\ Fetched = Op.JAM0 /\ last.pc = 0 /\ rPC = 1
  /\ <<rA, rX, rY, rStatus, rSP>> = <<0, 0, 0, 0, 0>>

(***************************************************************************)
(* C15: every memory index step() uses lies inside the memory array: the   *)
(* opcode fetch at PC, the operand fetch at the advanced PC, and the       *)
(* zero-page read of LDAzrpg at the operand's value, in every state        *)
(* reached by write_memory_direct and step calls.                          *)
(***************************************************************************)
C15_IndicesInBounds ==
  /\ rPC \in MemIndex
  /\ IncPC(rPC) \in MemIndex
  /\ (MemAt(IncPC(rPC)) % AddrRange) \in MemIndex
  /\ Stepped => last.pc \in MemIndex
  /\ Loaded => NextByteAt \in MemIndex
  /\ LoadedZrpg => (last.addr % AddrRange) \in MemIndex

\* LDAzrpg 0xFF: the zero-page read at the highest address a byte can name
C15_Witness == LoadedZrpg /\ last.pc = 0 /\ last.addr = 255

(***************************************************************************)
(* C16: step() never modifies memory: every cell holds after a step() what *)
(* it held before it, so what the last write_memory_direct left.           *)
(***************************************************************************)
C16_StepKeepsMemory ==
  [][ last'.op = "step" => (memory' = memory /\ fill' = fill) ]_vars

\* LDA #0xB2 executed from the two cells written before it
C16_Witness ==
  /\ LoadedImm /\ rA = 178
  /\ DOMAIN memory = {0, 1} /\ memory[0] = 169 /\ memory[1] = 178

(***************************************************************************)
(* C17: a step() that executes LDAimm or LDAzrpg leaves X, Y and SP        *)
(* unchanged, so they keep their initial values over any run of loads.     *)
(***************************************************************************)
C17_LoadKeepsXYSP ==
  [][ (last'.op = "step" /\ MemAt(rPC) \in {Op.LDAimm, Op.LDAzrpg})
        => UNCHANGED <<rX, rY, rSP>> ]_vars

\* a load that changed A on a CPU whose X, Y and SP are not zero
C17_Witness ==
  /\ Loaded /\ rA = 169
  /\ rX = 17 /\ rY = 34 /\ rSP = 253

(***************************************************************************)
(* C18: write_memory_direct(addr, v) changes only the cell at addr: every  *)
(* other address reads as before, and so does every register.              *)
(***************************************************************************)
\* the cells written so far, a cell never written, and both ends of the
\* address range
Probes == DOMAIN memory \cup {0, 2, 65534, 65535}

C18_WriteFrame ==
  [][ last'.op = "write"
        => /\ regs' = regs
           /\ fill' = fill
           /\ DOMAIN memory' \subseteq (DOMAIN memory \cup {last'.addr})
           /\ \A a \in Probes \ {last'.addr} :
                 read_memory(a)' = read_memory(a) ]_vars

\* the byte written to address 0 is still there after a write to address 1
C18_Witness ==
  /\ last.op = "write" /\ last.addr = 1 /\ last.value = 178
  /\ nwrites = 2 /\ read_memory(0) = 169 /\ read_memory(1) = 178

====
